---- MODULE Spec2Model ----
(***************************************************************************)
(* preprocess_markdown.py as a state machine.                              *)
(*                                                                         *)
(* One run of the script is the process `python preprocess_markdown.py     *)
(* ARGV`: the interpreter compiles the file, executes the module body      *)
(* (which calls main, which calls parse_args and then echoes the lines of  *)
(* the input file), reports an uncaught exception on standard error and    *)
(* exits.  Two runs are kept side by side (run 2 is launched once run 1    *)
(* has terminated) so that properties relating two runs can be stated.     *)
(***************************************************************************)
EXTENDS Integers, Sequences, FiniteSets, TLC

VARIABLES argv, doc, pc, stdout, stderr, exc, exitCode, open, nread, hist

vars == <<argv, doc, pc, stdout, stderr, exc, exitCode, open, nread, hist>>

(***************************************************************************)
(* Bounds and the environment of a run.                                    *)
(***************************************************************************)
MaxLen == 4

Runs == {1, 2}

NL == "\n"

\* The characters of a document: an ordinary character, the line terminator
\* and two markers, each standing for an include directive naming one file.
Char == {"a", NL, "F", "G"}

Texts == UNION {[1..k -> Char] : k \in 0..MaxLen}

\* The directories a search path can name and the code files they hold.
Dirs == {"d1", "d2"}

FS == [d1 |-> [F |-> <<"a", NL>>, G |-> <<"a", "a", NL>>],
       d2 |-> [F |-> <<"a", "a", "a", NL>>]]

\* The markdown files an input_file argument can name; only doc.md exists.
ExistingFiles == {"doc.md"}

FileArgs == {"doc.md", "missing.md"}

\* The command lines: no argument, the input file only, input file and path.
ArgvSet == {<<>>} \cup {<<f>> : f \in FileArgs}
                  \cup {<<f, d>> : f \in FileArgs, d \in Dirs}

(***************************************************************************)
(* The source, statement by statement.                                     *)
(***************************************************************************)

\* for line in args.input_file: a text file iterated yields its lines, each
\* keeping its terminator; a last line without terminator is yielded as is.
RECURSIVE ReadLines(_, _)
ReadLines(text, cur) ==
    IF text = <<>> THEN (IF cur = <<>> THEN <<>> ELSE <<cur>>)
    ELSE IF Head(text) = NL
         THEN <<Append(cur, NL)>> \o ReadLines(Tail(text), <<>>)
         ELSE ReadLines(Tail(text), Append(cur, Head(text)))

\* The keyword arguments print() accepts.
PrintKeywords == {"sep", "end", "file", "flush"}

\* print(line, eol=''): the keyword arguments of the call.
PrintKwargs == [eol |-> <<>>]

\* print(value, **kw): an unknown keyword raises TypeError before anything is
\* written; otherwise value is written followed by end (a newline by default).
print(value, kw) ==
    IF DOMAIN kw \subseteq PrintKeywords
    THEN [exc |-> "none",
          text |-> value \o (IF "end" \in DOMAIN kw THEN kw["end"] ELSE <<NL>>)]
    ELSE [exc |-> "TypeError", text |-> <<>>]

\* The loop of main: one print per line, top to bottom, stopped by the
\* first exception.  out is what was written, n the lines consumed.
RECURSIVE main_loop(_, _, _)
main_loop(lines, out, n) ==
    IF lines = <<>> THEN [exc |-> "none", out |-> out, nread |-> n]
    ELSE LET p == print(Head(lines), PrintKwargs)
         IN  IF p.exc # "none"
             THEN [exc |-> p.exc, out |-> out, nread |-> n + 1]
             ELSE main_loop(Tail(lines), out \o p.text, n + 1)

\* Argument names without a leading dash are positionals.
Positionals == {"input_file", "path"}

\* The keyword arguments given to add_argument('input_file', ...).
InputFileKwargs == {"type", "help", "required"}

\* parser.add_argument(name, **kw): argparse refuses `required` on a
\* positional with a TypeError.
add_argument(name, kw) ==
    IF name \in Positionals /\ "required" \in kw THEN "TypeError" ELSE "none"

\* parse_args(): builds the parser, then parses the command line.  A wrong
\* number of arguments or an input file that cannot be opened is a usage
\* error (argparse prints the usage and exits with status 2); otherwise
\* FileType('r') has opened the input file.
parse_args(av) ==
    IF add_argument("input_file", InputFileKwargs) # "none"
    THEN [exc |-> "TypeError", opened |-> {}]
    ELSE IF Len(av) # 2 \/ (Len(av) = 2 /\ av[1] \notin ExistingFiles)
         THEN [exc |-> "usage", opened |-> {}]
         ELSE [exc |-> "none", opened |-> {av[1]}]

\* main(): parse_args, then the echo loop over the input file.
main(av, text) ==
    LET a == parse_args(av)
    IN  IF a.exc # "none"
        THEN [exc |-> a.exc, out |-> <<>>, opened |-> a.opened, nread |-> 0]
        ELSE LET l == main_loop(ReadLines(text, <<>>), <<>>, 0)
             IN  [exc |-> l.exc, out |-> l.out, opened |-> a.opened,
                  nread |-> l.nread]

\* The statement under `if __name__ == '__main__':` is `return main()`.
EntryStatement == "return"

\* Compiling the file: a return statement outside a function is a
\* SyntaxError, found before any statement of the module is executed.
compile == IF EntryStatement = "return" THEN "SyntaxError" ELSE "none"

(***************************************************************************)
(* What the specification asks of a run: plain lines are passed through,   *)
(* a line that is an include directive is replaced by the contents of the  *)
(* file it names under the search path, and a directive whose file is      *)
(* missing fails the run with nothing written.  The source defines no      *)
(* directive syntax; here a directive is a line starting with a marker.    *)
(***************************************************************************)
IsDirective(line) == line # <<>> /\ Head(line) \in {"F", "G"}

Ref(line) == Head(line)

Directives(text) ==
    LET ls == ReadLines(text, <<>>)
    IN  {i \in 1..Len(ls) : IsDirective(ls[i])}

MissingRefs(text, dir) ==
    LET ls == ReadLines(text, <<>>)
    IN  {i \in Directives(text) : Ref(ls[i]) \notin DOMAIN FS[dir]}

Chunk(line, dir) == IF IsDirective(line) THEN FS[dir][Ref(line)] ELSE line

RECURSIVE ExpandLines(_, _)
ExpandLines(lines, dir) ==
    IF lines = <<>> THEN <<>>
    ELSE Chunk(Head(lines), dir) \o ExpandLines(Tail(lines), dir)

Expand(text, dir) == ExpandLines(ReadLines(text, <<>>), dir)

(***************************************************************************)
(* The process.                                                            *)
(***************************************************************************)

\* A variant of the script that compiles, parses its arguments and resolves
\* include directives against the search path.
python_include(av, text) ==
    IF Len(av) # 2 \/ (Len(av) = 2 /\ av[1] \notin ExistingFiles)
    THEN [exc |-> "usage", out |-> <<>>, opened |-> {}, nread |-> 0]
    ELSE IF MissingRefs(text, av[2]) # {}
         THEN [exc |-> "ReferenceNotFound", out |-> <<>>, opened |-> {av[1]},
               nread |-> 0]
         ELSE [exc |-> "none", out |-> Expand(text, av[2]), opened |-> {av[1]},
               nread |-> Len(ReadLines(text, <<>>))]

\* A variant of the script that compiles, parses its arguments and echoes
\* every line with print's default end, a newline after each line.
RECURSIVE EchoWithNewline(_)
EchoWithNewline(lines) ==
    IF lines = <<>> THEN <<>>
    ELSE print(Head(lines), <<>>).text \o EchoWithNewline(Tail(lines))

python_echo_nl(av, text) ==
    IF Len(av) # 2 \/ (Len(av) = 2 /\ av[1] \notin ExistingFiles)
    THEN [exc |-> "usage", out |-> <<>>, opened |-> {}, nread |-> 0]
    ELSE [exc |-> "none", out |-> EchoWithNewline(ReadLines(text, <<>>)),
          opened |-> {av[1]}, nread |-> Len(ReadLines(text, <<>>))]

\* python preprocess_markdown.py ARGV: the file is compiled first; only a
\* file that compiles has its module body executed, which calls main().
python(av, text) ==
    IF compile # "none"
    THEN [exc |-> compile, out |-> <<>>, opened |-> {}, nread |-> 0]
    ELSE main(av, text)

\* The exit status of the process: 0 without an exception, 2 for argparse's
\* usage error, 1 for any other uncaught exception.
ExitStatus(e) == IF e = "none" THEN 0 ELSE IF e = "usage" THEN 2 ELSE 1

NotExited == -1

Snapshot(p, out, err, code) ==
    [pc |-> p, stdout |-> out, stderr |-> err, exitCode |-> code]

Init ==
    /\ argv \in [Runs -> ArgvSet] /\ argv[2] = <<>>
    /\ doc \in [Runs -> Texts] /\ doc[2] = <<>>
    /\ pc = [r \in Runs |-> IF r = 1 THEN "start" ELSE "idle"]
    /\ stdout = [r \in Runs |-> <<>>]
    /\ stderr = [r \in Runs |-> <<>>]
    /\ exc = [r \in Runs |-> "none"]
    /\ exitCode = [r \in Runs |-> NotExited]
    /\ open = [r \in Runs |-> {}]
    /\ nread = [r \in Runs |-> 0]
    /\ hist = [r \in Runs |-> <<>>]

\* The interpreter compiles the script and, if it compiles, runs it.
Interpret(r) ==
    /\ pc[r] = "start"
    /\ LET res == python(argv[r], doc[r])
           next == IF res.exc = "none" THEN "exiting" ELSE "raised"
       IN  /\ stdout' = [stdout EXCEPT ![r] = res.out]
           /\ exc' = [exc EXCEPT ![r] = res.exc]
           /\ open' = [open EXCEPT ![r] = res.opened]
           /\ nread' = [nread EXCEPT ![r] = res.nread]
           /\ pc' = [pc EXCEPT ![r] = next]
           /\ hist' = [hist EXCEPT ![r] =
                 Append(@, Snapshot(next, res.out, stderr[r], exitCode[r]))]
    /\ UNCHANGED <<argv, doc, stderr, exitCode>>

\* The uncaught exception (or argparse's usage message) goes to stderr.
Report(r) ==
    /\ pc[r] = "raised"
    /\ stderr' = [stderr EXCEPT ![r] = Append(@, exc[r])]
    /\ pc' = [pc EXCEPT ![r] = "exiting"]
    /\ hist' = [hist EXCEPT ![r] =
          Append(@, Snapshot("exiting", stdout[r], stderr'[r], exitCode[r]))]
    /\ UNCHANGED <<argv, doc, stdout, exc, exitCode, open, nread>>

\* The process ends: its exit status is set and the operating system
\* releases whatever files it still held.
Exit(r) ==
    /\ pc[r] = "exiting"
    /\ exitCode' = [exitCode EXCEPT ![r] = ExitStatus(exc[r])]
    /\ open' = [open EXCEPT ![r] = {}]
    /\ pc' = [pc EXCEPT ![r] = "terminated"]
    /\ hist' = [hist EXCEPT ![r] =
          Append(@, Snapshot("terminated", stdout[r], stderr[r], exitCode'[r]))]
    /\ UNCHANGED <<argv, doc, stdout, stderr, exc, nread>>

\* A second invocation, after the first has ended: any command line, on the
\* same document or on what the first run wrote to standard output.
Launch2 ==
    /\ pc[1] = "terminated" /\ pc[2] = "idle"
    /\ \E a \in ArgvSet, d \in {doc[1], stdout[1]} :
          /\ argv' = [argv EXCEPT ![2] = a]
          /\ doc' = [doc EXCEPT ![2] = d]
    /\ pc' = [pc EXCEPT ![2] = "start"]
    /\ UNCHANGED <<stdout, stderr, exc, exitCode, open, nread, hist>>

Next ==
    \/ \E r \in Runs : Interpret(r)
    \/ \E r \in Runs : Report(r)
    \/ \E r \in Runs : Exit(r)
    \/ Launch2

Spec == Init /\ [][Next]_vars

TypeOK ==
    /\ argv \in [Runs -> ArgvSet]
    /\ pc \in [Runs -> {"idle", "start", "raised", "exiting", "terminated"}]
    /\ exitCode \in [Runs -> {NotExited, 0, 1, 2}]
    /\ \A r \in Runs : open[r] \subseteq FileArgs

(***************************************************************************)
(* The claims.                                                             *)
(***************************************************************************)
Terminated(r) == pc[r] = "terminated"

\* The command line names a readable input file and a search path.
ValidArgs(r) == Len(argv[r]) = 2 /\ argv[r][1] \in ExistingFiles

SearchPath(r) == argv[r][2]

InputLines(r) == ReadLines(doc[r], <<>>)

\* C1: a terminated run on a readable document without include directive
\* has written exactly the document to standard output.
C1_Identity ==
    \A r \in Runs :
        (Terminated(r) /\ ValidArgs(r) /\ Directives(doc[r]) = {})
            => stdout[r] = doc[r]

\* C2: a terminated run on a document with exactly one include directive,
\* whose file exists under the search path, has written the document with
\* the directive replaced by the file's contents and all other lines
\* unchanged.
C2_IncludeSubstitution ==
    \A r \in Runs :
        (/\ Terminated(r) /\ ValidArgs(r)
         /\ Cardinality(Directives(doc[r])) = 1
         /\ MissingRefs(doc[r], SearchPath(r)) = {})
            => stdout[r] = Expand(doc[r], SearchPath(r))

\* C3: a run on a document with a directive naming a missing file ends
\* with the ReferenceNotFound error on standard error, a non-zero exit
\* code and an empty standard output.
C3_MissingReference ==
    \A r \in Runs :
        (Terminated(r) /\ ValidArgs(r) /\ MissingRefs(doc[r], SearchPath(r)) # {})
            => /\ stderr[r] = <<"ReferenceNotFound">>
               /\ exitCode[r] # 0
               /\ stdout[r] = <<>>

\* C4: at every moment what a run has written is the concatenation, in
\* input order, of the chunks of a prefix of the input lines, and a
\* terminated run on two include directives has written both substitutions
\* in the order of the directives.
C4_OrderPreserved ==
    \A r \in Runs :
        (ValidArgs(r) /\ pc[r] # "idle" /\ MissingRefs(doc[r], SearchPath(r)) = {})
            => /\ \E k \in 0..Len(InputLines(r)) :
                    stdout[r] = ExpandLines(SubSeq(InputLines(r), 1, k), SearchPath(r))
               /\ (Terminated(r) /\ Cardinality(Directives(doc[r])) = 2)
                    => stdout[r] = Expand(doc[r], SearchPath(r))

\* C5: a run with missing or malformed arguments ends with parse_args'
\* usage error on standard error, a non-zero exit code, nothing on standard
\* output and no input line consumed by the loop of main.
C5_UsageError ==
    \A r \in Runs :
        (Terminated(r) /\ ~ValidArgs(r))
            => /\ stderr[r] = <<"usage">>
               /\ exitCode[r] # 0
               /\ stdout[r] = <<>>
               /\ nread[r] = 0

\* C6: a terminated run with a readable input file, a search path and no
\* failing file reference has exit code 0 and has written the whole
\* processed document; with valid arguments a non-zero exit code comes
\* only with a file-resolution or read error.
C6_SuccessfulCompletion ==
    \A r \in Runs :
        /\ (Terminated(r) /\ ValidArgs(r) /\ MissingRefs(doc[r], SearchPath(r)) = {})
              => (exitCode[r] = 0 /\ stdout[r] = Expand(doc[r], SearchPath(r)))
        /\ (Terminated(r) /\ ValidArgs(r) /\ exitCode[r] # 0)
              => exc[r] \in {"ReferenceNotFound", "ReadError"}

\* C8: on a document without include directive, a second run with the same
\* command line on the same document ends with the same standard output
\* and exit code, and a second run on the first run's output writes that
\* same output again.
C8_Idempotent ==
    (/\ Terminated(1) /\ Terminated(2)
     /\ ValidArgs(1) /\ argv[2] = argv[1]
     /\ Directives(doc[1]) = {})
        => /\ doc[2] = doc[1] =>
                (stdout[2] = stdout[1] /\ exitCode[2] = exitCode[1])
           /\ doc[2] = stdout[1] => stdout[2] = stdout[1]

\* Both runs are over, the first on a non-empty document without directive
\* and the second on what the first wrote.
C8_Witness ==
    /\ Terminated(1) /\ Terminated(2)
    /\ ValidArgs(1) /\ argv[2] = argv[1]
    /\ doc[1] # <<>> /\ Directives(doc[1]) = {}
    /\ doc[2] = stdout[1]

\* C9: a terminated run on a readable document of N lines has consumed
\* each of the N lines once, in N iterations of the loop of main.
C9_SinglePass ==
    \A r \in Runs :
        (Terminated(r) /\ ValidArgs(r) /\ MissingRefs(doc[r], SearchPath(r)) = {})
            => nread[r] = Len(InputLines(r))

====
